---- MODULE Spec2Model ----
(***************************************************************************)
(* Transaction-log backup, indexing and recovery subsystem of Olym3Chain.  *)
(*                                                                         *)
(*   TransactionDatabaseManager  (databaseManager, src/unnamed/part_002)   *)
(*   TransactionBackupManager    (src/scripts/backupTransactionLogs.ts)    *)
(*   NetworkRecoveryManager      (networkRecovery, src/unnamed/part_003)   *)
(*   AutoBackupMonitor           (autoBackupMonitor, src/unnamed/part_001) *)
(*   TransactionRestoreManager   (src/scripts/restoreTransactionLogs.ts)   *)
(*                                                                         *)
(* Files on disk are variables; every asynchronous method is split at its  *)
(* awaits, so that other callbacks of the single-threaded event loop can   *)
(* run in between, exactly where the JavaScript runtime lets them.         *)
(***************************************************************************)
EXTENDS Integers, Sequences, FiniteSets, TLC

VARIABLES
    database,       \* the four JSON files of TransactionDatabaseManager
    lastBatch,      \* argument of the latest saveTransactions call
    now,            \* Date.now(), in model ticks
    height,         \* provider.getBlockNumber(): the chain's current height
    metadata,       \* backups/<network>/backup-metadata.json (the cursor)
    backupDir,      \* backups/<network>/backup-*.json (the segments)
    procs,          \* async calls in flight, each at one of its awaits
    isRunning,      \* AutoBackupMonitor.isRunning
    intervalId,     \* AutoBackupMonitor.intervalId (0 is null)
    timers,         \* timers armed in the event loop (setInterval handles)
    config,         \* AutoBackupMonitor.config
    lastBackupBlock,\* AutoBackupMonitor.lastBackupBlock
    stopReturned,   \* history: stop() has returned and start() was not called since
    prevCycleBlock, \* history: block reached by the latest completed cycle (-1: none)
    cycles,         \* history: number of performBackup calls since the initial state
    lastEvent,      \* history: the call that returned last, and how
    recoveryConfig, \* NetworkRecoveryManager.config
    recoveryStats,  \* NetworkRecoveryManager.recoveryStats
    recoveryPhase,  \* history: the stages the latest performRecovery went through
    recoveryRuns,   \* history: number of performRecovery calls on the manager
    validationReport, \* recovery/validation-report.json
    segmentsAtStart,\* history: the segments present when performRecovery began
    stateReport,    \* recovery/state-reconstruction-*.json of the configured mode
    errorsAtStart,  \* history: recoveryStats.errors when performRecovery began
    armedAt,        \* the delay each armed timer was given to setInterval
    restored,       \* restored/all-transactions-*.json of TransactionRestoreManager
    exported        \* exports/transactions-*.csv, and how the latest exportToCSV ended

vars == <<database, lastBatch, now, height, metadata, backupDir, procs,
          isRunning, intervalId, timers, config, lastBackupBlock,
          stopReturned, prevCycleBlock, cycles, lastEvent, recoveryConfig, recoveryStats,
          recoveryPhase, recoveryRuns, validationReport, segmentsAtStart,
          stateReport, errorsAtStart, armedAt, restored, exported>>

dbVars      == <<database, lastBatch>>
toolVars    == <<restored, exported>>
chainVars   == <<height>>
storeVars   == <<metadata, backupDir>>
monitorVars == <<isRunning, intervalId, timers, armedAt, config, lastBackupBlock,
                 stopReturned, prevCycleBlock, cycles>>
recVars     == <<recoveryConfig, recoveryStats, recoveryPhase, recoveryRuns,
                 validationReport, segmentsAtStart, stateReport, errorsAtStart>>

----------------------------------------------------------------------------
(* Bounds of the model.                                                     *)

MaxBatch  == 2      \* longest batch handed to saveTransactions
MaxTime   == 1      \* Date.now() ranges over 0..MaxTime
MaxHeight == 2      \* the chain grows up to this height
MaxProcs  == 2      \* async calls that may be in flight at once
MaxTimers == 2      \* timers that may be armed at once
MaxCycles == 2      \* performBackup calls on one AutoBackupMonitor
MaxRuns   == 2      \* performRecovery calls on one NetworkRecoveryManager
MaxSegments == 2    \* a new command-line backup starts while the directory holds fewer files
FlushEvery == 2     \* blocks per incremental segment (the source flushes every 100)

----------------------------------------------------------------------------
(* Generic helpers.                                                         *)

Range(s) == {s[i] : i \in 1..Len(s)}

Includes(s, x) == \E i \in 1..Len(s) : s[i] = x

Min(S) == CHOOSE x \in S : \A y \in S : x <= y

Max(S) == CHOOSE x \in S : \A y \in S : x >= y

SeqsUpTo(S, n) == UNION {[1..k -> S] : k \in 0..n}

\* String.prototype.toLowerCase on the address strings of the model.
toLowerCase(s) ==
    CASE s = "0xAA" -> "0xaa"
      [] s = "0xBB" -> "0xbb"
      [] OTHER      -> s

\* The clock never runs backwards; two reads may fall in the same millisecond.
Later == {t \in now..(now + 1) : t <= MaxTime}

----------------------------------------------------------------------------
(* TransactionLog records.  The model keeps the fields that the indices, *)
(* the filters and the ordering read.                                      *)

TxV(b, h, f, t, v, st) ==
    [blockNumber |-> b, transactionHash |-> h, from |-> f, to |-> t,
     value |-> v, status |-> st]

\* a successful transfer of nothing
Tx(b, h, f, t) == TxV(b, h, f, t, "0", 1)

\* Records handed to saveTransactions.  The same hash occurs with different
\* block numbers and addresses, addresses occur in two spellings, and "to"
\* is empty for a contract creation.
StoreRecords ==
    { TxV(1, "0xh1", "0xaa", "0xbb", "5", 1),
      TxV(2, "0xh1", "0xAA", "", "0", 0),
      TxV(1, "0xh2", "0xbb", "0xaa", "1000000000", 0),
      TxV(2, "0xh2", "0xbb", "0xAA", "5", 1) }

Batches == SeqsUpTo(StoreRecords, MaxBatch)

----------------------------------------------------------------------------
(* TransactionDatabaseManager (JSON backend).                              *)

NoFile == [exists |-> FALSE]

File(d) == [exists |-> TRUE, data |-> d]

\* Math.min(...[]) is Infinity, which JSON.stringify writes as null.
NullBlock == -1

EmptyDatabase ==
    [transactions |-> NoFile, blocks |-> NoFile, addresses |-> NoFile, index |-> NoFile]

\* self.findIndex(t => t.transactionHash === tx.transactionHash) === index
uniqueTransactions(all) ==
    SelectSeq([i \in 1..Len(all) |-> [i |-> i, tx |-> all[i]]],
              LAMBDA e : \A j \in 1..(e.i - 1) :
                            all[j].transactionHash # e.tx.transactionHash)

StripIndex(s) == [i \in 1..Len(s) |-> s[i].tx]

\* if (!index[key]) index[key] = []; if (!index[key].includes(h)) index[key].push(h)
PushUniqueDup(index, key, h) ==
    IF key \in DOMAIN index
    THEN [index EXCEPT ![key] = Append(@, h)]
    ELSE [k \in DOMAIN index \cup {key} |-> IF k = key THEN <<h>> ELSE index[k]]

PushUnique(index, key, h) ==
    IF key \in DOMAIN index
    THEN IF Includes(index[key], h) THEN index
         ELSE [index EXCEPT ![key] = Append(@, h)]
    ELSE [k \in DOMAIN index \cup {key} |-> IF k = key THEN <<h>> ELSE index[k]]

\* transactions.forEach(tx => ...) of the blocks index
RECURSIVE UpdateBlocks(_, _)
UpdateBlocks(blocks, txs) ==
    IF txs = <<>> THEN blocks
    ELSE UpdateBlocks(PushUnique(blocks, Head(txs).blockNumber,
                                 Head(txs).transactionHash),
                      Tail(txs))

\* transactions.forEach(tx => ...) of the addresses index
RECURSIVE UpdateAddresses(_, _)
UpdateAddresses(addresses, txs) ==
    IF txs = <<>> THEN addresses
    ELSE LET tx       == Head(txs)
             withFrom == PushUnique(addresses, tx.from, tx.transactionHash)
             withTo   == IF tx.to # ""
                         THEN PushUnique(withFrom, tx.to, tx.transactionHash)
                         ELSE withFrom
         IN  UpdateAddresses(withTo, Tail(txs))

EmptyIndex == [k \in {} |-> <<>>]

ReadOr(file, default) == IF file.exists THEN file.data ELSE default

saveToJsonDatabase(db, transactions, time) ==
    LET existingTransactions == ReadOr(db.transactions, <<>>)
        existingBlocks       == ReadOr(db.blocks, EmptyIndex)
        existingAddresses    == ReadOr(db.addresses, EmptyIndex)
        allTransactions      == existingTransactions \o transactions
        unique               == StripIndex(uniqueTransactions(allTransactions))
        newBlocks            == UpdateBlocks(existingBlocks, transactions)
        newAddresses         == UpdateAddresses(existingAddresses, transactions)
        blockNumbers         == {unique[i].blockNumber : i \in 1..Len(unique)}
        newIndex ==
            [totalTransactions |-> Len(unique),
             totalBlocks       |-> Cardinality(DOMAIN newBlocks),
             uniqueAddresses   |-> Cardinality(DOMAIN newAddresses),
             lastUpdate        |-> time,
             blockRange        |->
                IF blockNumbers = {}
                THEN [min |-> NullBlock, max |-> NullBlock]
                ELSE [min |-> Min(blockNumbers), max |-> Max(blockNumbers)]]
    IN  [transactions |-> File(unique),
         blocks       |-> File(newBlocks),
         addresses    |-> File(newAddresses),
         index        |-> File(newIndex)]

\* config.type is "json"; the sqlite and mongodb cases fall back to the same code.
saveTransactions(transactions) ==
    \E t \in Later :
        /\ database'  = saveToJsonDatabase(database, transactions, t)
        /\ lastBatch' = transactions
        /\ now'       = t

getDatabaseStats(db) ==
    IF ~db.index.exists
    THEN [totalTransactions |-> 0, totalBlocks |-> 0, uniqueAddresses |-> 0]
    ELSE [totalTransactions |-> db.index.data.totalTransactions,
          totalBlocks       |-> db.index.data.totalBlocks,
          uniqueAddresses   |-> db.index.data.uniqueAddresses]

\* an optional argument or field: passed, or left undefined
Some(v) == [defined |-> TRUE, value |-> v]

None == [defined |-> FALSE]

\* BigInt(string) on the decimal strings of the model
BigInt(str) ==
    CASE str = "0"          -> 0
      [] str = "5"          -> 5
      [] str = "6"          -> 6
      [] str = "1000000000" -> 1000000000

\* query.from && ..., query.to && ...: undefined and "" are both falsy
TruthyString(opt) == opt.defined /\ opt.value # ""

\* query.status !== undefined
StatusGiven(opt) == opt.defined

\* lines 279-294: the filter callback
Matches(tx, query) ==
    /\ ~(TruthyString(query.from)
            /\ toLowerCase(tx.from) # toLowerCase(query.from.value))
    /\ ~(TruthyString(query.to)
            /\ toLowerCase(tx.to) # toLowerCase(query.to.value))
    /\ ~(query.blockRange.defined
            /\ (\/ tx.blockNumber < query.blockRange.value.from
                \/ tx.blockNumber > query.blockRange.value.to))
    /\ ~(query.valueRange.defined
            /\ (\/ BigInt(tx.value) < BigInt(query.valueRange.value.from)
                \/ BigInt(tx.value) > BigInt(query.valueRange.value.to)))
    /\ ~(StatusGiven(query.status) /\ tx.status # query.status.value)

\* lines 264-295
searchTransactions(db, query) ==
    IF ~db.transactions.exists THEN <<>>
    ELSE SelectSeq(db.transactions.data, LAMBDA tx : Matches(tx, query))

\* lines 196-209
getTransactionsByBlock(db, blockNumber) ==
    IF ~db.blocks.exists \/ ~db.transactions.exists THEN <<>>
    ELSE LET blocks            == db.blocks.data
             transactionHashes == IF blockNumber \in DOMAIN blocks
                                  THEN blocks[blockNumber] ELSE <<>>
         IN  SelectSeq(db.transactions.data,
                       LAMBDA tx : Includes(transactionHashes, tx.transactionHash))

\* lines 211-224
getTransactionsByAddress(db, address) ==
    IF ~db.addresses.exists \/ ~db.transactions.exists THEN <<>>
    ELSE LET addresses         == db.addresses.data
             transactionHashes == IF address \in DOMAIN addresses
                                  THEN addresses[address] ELSE <<>>
         IN  SelectSeq(db.transactions.data,
                       LAMBDA tx : Includes(transactionHashes, tx.transactionHash))

\* lines 226-235: the first record with the hash, or null
getTransactionByHash(db, hash) ==
    IF ~db.transactions.exists THEN None
    ELSE LET found == SelectSeq(db.transactions.data,
                                LAMBDA tx : tx.transactionHash = hash)
         IN  IF found = <<>> THEN None ELSE Some(Head(found))

\* lines 326-338: the row of one transaction, with the columns the model keeps
CsvRow(tx) == <<tx.blockNumber, tx.transactionHash, tx.from, tx.to, tx.value, tx.status>>

Exported(rows) == [csv |-> File(rows), result |-> "exported"]

NoData == "No transactions found in database"

\* lines 297-345
exportToCSV ==
    /\ exported' =
          IF ~database.transactions.exists
          THEN [exported EXCEPT !.result = NoData]
          ELSE LET allTransactions == database.transactions.data
               IN  Exported([i \in 1..Len(allTransactions) |->
                                CsvRow(allTransactions[i])])
    /\ UNCHANGED <<database, lastBatch, now, restored>>

\* The three parts of the store that the indices' contract speaks about.
Primary(db)      == ReadOr(db.transactions, <<>>)
BlockIndex(db)   == ReadOr(db.blocks, EmptyIndex)
AddressIndex(db) == ReadOr(db.addresses, EmptyIndex)

----------------------------------------------------------------------------
(* The chain node (ChainReader).  Block n holds one transaction; the       *)
(* genesis block holds none.  getBlock of a height the chain has not       *)
(* reached returns null.                                                   *)

ChainHash == <<"0xc1", "0xc2", "0xc3", "0xc4", "0xc5", "0xc6", "0xc7", "0xc8">>

ChainBlock(n) ==
    IF n = 0 \/ n > Len(ChainHash) THEN <<>>
    ELSE IF n % 2 = 1
         THEN <<Tx(n, ChainHash[n], "0xAA", "0xbb")>>
         ELSE <<Tx(n, ChainHash[n], "0xbb", "")>>

\* an optional number argument that was not passed
Undefined == -1

\* !x of an optional number: undefined and 0 are both falsy
Falsy(x) == x = Undefined \/ x = 0

----------------------------------------------------------------------------
(* TransactionBackupManager.                                               *)

\* the name backup-<blockNumber>-<timestamp>.json
FileName(blockNumber, timestamp) == <<blockNumber, timestamp>>

saveIncrementalBackup(dir, transactions, blockNumber, timestamp) ==
    LET name == FileName(blockNumber, timestamp)
    IN  [f \in DOMAIN dir \cup {name} |->
            IF f = name
            THEN [lastBackupBlock |-> blockNumber,
                  transactions    |-> transactions,
                  backupTimestamp |-> timestamp]
            ELSE dir[f]]

\* the name backup-metadata.json
MetadataName == <<"metadata">>

\* readdirSync filtered by startsWith("backup-") && endsWith(".json"): the
\* segments and, once it is written, backup-metadata.json itself
listBackups(dir, md) == DOMAIN dir \cup (IF md.exists THEN {MetadataName} ELSE {})

getBackupFileCount(dir, md) == Cardinality(listBackups(dir, md))

\* The cursor file: its content and the time the file was created.
\* writeFileSync on an existing file keeps the file's birthtime.
CursorFile(d, born) == [exists |-> TRUE, data |-> d, birthtime |-> born]

saveBackupMetadata(md, dir, lastBlock, time) ==
    CursorFile([lastBackupBlock |-> lastBlock,
                lastBackupTime  |-> time,
                totalBackups    |-> getBackupFileCount(dir, md)],
               IF md.exists THEN md.birthtime ELSE time)

getLastBackupBlock(md) == IF md.exists THEN md.data.lastBackupBlock + 1 ELSE 0

getBackupInfo(md) == md

NoSegments == [f \in {} |-> <<>>]

----------------------------------------------------------------------------
(* TransactionRestoreManager (src/scripts/restoreTransactionLogs.ts).      *)

\* the decimal digits of n, as character codes
RECURSIVE Digits(_)
Digits(n) == IF n < 10 THEN <<48 + n>> ELSE Digits(n \div 10) \o <<48 + (n % 10)>>

\* what follows "backup-" in a file name, as character codes:
\* <block>-<timestamp>.json for a segment, metadata.json for the cursor
NameChars(f) ==
    IF f = MetadataName THEN <<109>>
    ELSE Digits(f[1]) \o <<45>> \o Digits(f[2]) \o <<46>>

\* the default comparison of Array.prototype.sort: strings by code units
RECURSIVE LexLess(_, _)
LexLess(a, b) ==
    IF b = <<>> THEN FALSE
    ELSE IF a = <<>> THEN TRUE
    ELSE IF Head(a) # Head(b) THEN Head(a) < Head(b)
    ELSE LexLess(Tail(a), Tail(b))

RECURSIVE SortedNames(_)
SortedNames(S) ==
    IF S = {} THEN <<>>
    ELSE LET first == CHOOSE f \in S :
                         \A g \in S \ {f} : LexLess(NameChars(f), NameChars(g))
         IN  <<first>> \o SortedNames(S \ {first})

\* lines 94-101: readdirSync, the same filter as listBackups, then sort()
getAllBackupFiles(dir, md) == SortedNames(listBackups(dir, md))

\* the order localeCompare gives the transaction hashes of the model
Collation ==
    <<"0xc1", "0xc2", "0xc3", "0xc4", "0xc5", "0xc6", "0xc7", "0xc8",
      "0xca", "0xd2", "0xh1", "0xh2">>

Rank(h) == CHOOSE i \in 1..Len(Collation) : Collation[i] = h

localeCompare(a, b) ==
    IF Rank(a) < Rank(b) THEN -1 ELSE IF Rank(a) > Rank(b) THEN 1 ELSE 0

compareBlockOnly(a, b) == a.blockNumber - b.blockNumber

\* lines 81-86: the comparator handed to sort
compare(a, b) ==
    IF a.blockNumber # b.blockNumber
    THEN a.blockNumber - b.blockNumber
    ELSE localeCompare(a.transactionHash, b.transactionHash)

\* Array.prototype.sort is stable: x goes behind the elements that do not
\* compare greater
RECURSIVE Insert(_, _)
Insert(sorted, x) ==
    IF sorted = <<>> THEN <<x>>
    ELSE IF compare(x, sorted[Len(sorted)]) >= 0 THEN Append(sorted, x)
    ELSE Append(Insert(SubSeq(sorted, 1, Len(sorted) - 1), x), sorted[Len(sorted)])

RECURSIVE sort(_)
sort(txs) ==
    IF txs = <<>> THEN <<>>
    ELSE Insert(sort(SubSeq(txs, 1, Len(txs) - 1)), txs[Len(txs)])

\* lines 61-78: allTransactions.push(...backupData.transactions) per file
RECURSIVE ReadAll(_, _)
ReadAll(dir, files) ==
    IF files = <<>> THEN <<>>
    ELSE dir[Head(files)].transactions \o ReadAll(dir, Tail(files))

\* lines 61-86 for the files that could be read, in the order they were read
consolidate(dir, files) == sort(ReadAll(dir, files))

\* if (!index[key]) index[key] = []; index[key].push(h)
PushHash(index, key, h) ==
    IF key \in DOMAIN index
    THEN [index EXCEPT ![key] = Append(@, h)]
    ELSE [k \in DOMAIN index \cup {key} |-> IF k = key THEN <<h>> ELSE index[k]]

RECURSIVE RestoredBlockIndex(_, _)
RestoredBlockIndex(index, txs) ==
    IF txs = <<>> THEN index
    ELSE RestoredBlockIndex(
            PushHash(index, Head(txs).blockNumber, Head(txs).transactionHash),
            Tail(txs))

RECURSIVE RestoredAddressIndex(_, _)
RestoredAddressIndex(index, txs) ==
    IF txs = <<>> THEN index
    ELSE LET tx       == Head(txs)
             withFrom == PushHash(index, tx.from, tx.transactionHash)
             withTo   == IF tx.to # ""
                         THEN PushHash(withFrom, tx.to, tx.transactionHash)
                         ELSE withFrom
         IN  RestoredAddressIndex(withTo, Tail(txs))

\* lines 103-169: the files of restored/<network>, and the backup files the
\* run could read
saveRestoredTransactions(transactions, files, time) ==
    LET addressIndex == RestoredAddressIndex(EmptyIndex, transactions)
        blockNumbers == {transactions[i].blockNumber : i \in 1..Len(transactions)}
    IN  [exists       |-> TRUE,
         files        |-> files,
         transactions |-> transactions,
         blockIndex   |-> RestoredBlockIndex(EmptyIndex, transactions),
         addressIndex |-> addressIndex,
         summary      |->
            [totalTransactions |-> Len(transactions),
             blockRange        |->
                IF blockNumbers = {}
                THEN [from |-> NullBlock, to |-> NullBlock]
                ELSE [from |-> Min(blockNumbers), to |-> Max(blockNumbers)],
             uniqueAddresses   |-> Cardinality(DOMAIN addressIndex),
             restoreTimestamp  |-> time]]

----------------------------------------------------------------------------
(* Async calls in flight.  kind says whose call it is:                     *)
(*   "direct"    backupTransactions called from the command line           *)
(*   "start"     AutoBackupMonitor.start awaiting its first performBackup  *)
(*   "tick"      the setInterval callback                                  *)
(*   "force"     AutoBackupMonitor.forceBackup                             *)
(*   "reconfigure" AutoBackupMonitor.updateConfig awaiting the start() it  *)
(*               called                                                    *)
(*   "recovery"  NetworkRecoveryManager.performRecovery                    *)
(* extracted and segments are history: the records the call has pushed to  *)
(* its buffer since it began, and the names of the files it has written.   *)
(* pc is the await the call is suspended at:                               *)
(*   "pb_height" performBackup awaits provider.getBlockNumber()            *)
(*   "bt_height" backupTransactions awaits provider.getBlockNumber()       *)
(*   "bt_loop"   backupTransactions is in its for loop, before blockNum    *)

Procs == 1..MaxProcs

IdleProc ==
    [kind |-> "none", pc |-> "idle",
     fromArg |-> Undefined, toArg |-> Undefined,
     currentBlock |-> 0, fromBlock |-> 0, toBlock |-> 0, blockNum |-> 0,
     transactions |-> <<>>, processedBlocks |-> 0,
     fetched |-> 0, written |-> 0,
     extracted |-> <<>>, segments |-> {}]

Active == {p \in Procs : procs[p].kind # "none"}

\* a new call takes the first free slot
FreeProc == Min(Procs \ Active)

\* the synchronous head of backupTransactions, up to its first await
EnterBackup(proc, fromArg, toArg) ==
    [proc EXCEPT !.pc = "bt_height", !.fromArg = fromArg, !.toArg = toArg]

\* lines 50-60: the height arrived; resolve the range
ResolveRange(proc, currentBlock, md) ==
    LET fromBlock == IF Falsy(proc.fromArg) THEN getLastBackupBlock(md)
                     ELSE proc.fromArg
        toBlock   == IF Falsy(proc.toArg) THEN currentBlock ELSE proc.toArg
    IN  [proc EXCEPT !.pc = "bt_loop", !.fromBlock = fromBlock,
                     !.toBlock = toBlock, !.blockNum = fromBlock]

\* The transactions of block n whose getTransaction and getTransactionReceipt
\* both answered; kept is the set of positions that did.
Extracted(n, kept) ==
    LET txs == ChainBlock(n)
    IN  SelectSeq([i \in 1..Len(txs) |-> [i |-> i, tx |-> txs[i]]],
                  LAMBDA e : e.i \in kept)

----------------------------------------------------------------------------
(* AutoBackupMonitor: what follows a performBackup that settled.          *)

\* stats.birthtime of a listed file: a segment is created when it is named
Birthtime(f, md) == IF f = MetadataName THEN md.birthtime ELSE f[2]

Cleaned(deleted, failed) == [deleted |-> deleted, failed |-> failed]

\* the first k files of the listing sorted by birthtime, oldest first; files
\* born in the same millisecond keep the order readdir gave them, which the
\* file system decides
OldestFirst(backupFiles, md, k) ==
    {D \in SUBSET backupFiles :
        /\ Cardinality(D) = k
        /\ \A d \in D, f \in backupFiles \ D : Birthtime(d, md) <= Birthtime(f, md)}

\* cleanupOldBackups: the files it unlinks, and whether readdirSync,
\* statSync or unlinkSync threw into the catch of line 152
cleanupOldBackups(dir, md, cfg) ==
    LET backupFiles == listBackups(dir, md)
        n           == Cardinality(backupFiles)
        excess      == n - cfg.maxBackupFiles
    IN  IF ~cfg.enableAutoCleanup THEN {Cleaned({}, FALSE)}
        ELSE {Cleaned({}, TRUE)}
             \cup (IF n <= cfg.maxBackupFiles THEN {Cleaned({}, FALSE)}
                   ELSE {Cleaned(D, FALSE) : D \in OldestFirst(backupFiles, md, excess)}
                        \cup {Cleaned(D, TRUE) :
                                D \in UNION {OldestFirst(backupFiles, md, k) :
                                                k \in 1..(excess - 1)}})

Unlink(dir, D) == [f \in DOMAIN dir \ D |-> dir[f]]

UnlinkMetadata(md, D) == IF MetadataName \in D THEN NoFile ELSE md

\* setInterval(callback, delay) and clearInterval(handle) on the table of
\* delays
Arm(delays, handle, delay) ==
    [h \in DOMAIN delays \cup {handle} |-> IF h = handle THEN delay ELSE delays[h]]

Disarm(delays, handle) == [h \in DOMAIN delays \ {handle} |-> delays[h]]

NoTimers == [h \in {} |-> 0]

\* setInterval returns a handle that no armed timer has
NewTimer == Min((1..(MaxTimers + 1)) \ timers)

Event(kind, result) == [kind |-> kind, result |-> result]

\* how the call of p ended: it threw at its getBlockNumber or at its last
\* write, it returned early, or it went through its range
Outcome(p, ok, ran) ==
    IF ~ok THEN (IF procs[p].pc = "bt_loop" THEN "failed" ELSE "unreachable")
    ELSE IF ~ran THEN "skipped"
    ELSE IF procs[p].fetched > procs[p].processedBlocks
         THEN "completed, blocks skipped"
         ELSE "completed"

TimersAfterRejectionCleared(kind) ==
    IF kind = "tick" THEN timers \ {intervalId} ELSE timers

\* lines 67-69: the catch of the timer callback logs; nothing clears the timer
TimersAfterRejection(kind) == timers

\* performBackup of call p settled (ok: it returned, ran: it called
\* backupTransactions), with the segment directory at dir and the cursor
\* file at md; the caller goes on.
performBackupSettled(p, ok, ran, dir, md) ==
    LET kind == procs[p].kind
    IN  /\ lastBackupBlock' = IF ok /\ ran THEN procs[p].currentBlock ELSE lastBackupBlock
        /\ prevCycleBlock'  = IF ok /\ ran THEN procs[p].toBlock ELSE prevCycleBlock
        /\ UNCHANGED <<isRunning, config, stopReturned, cycles>>
        /\ CASE kind \in {"start", "reconfigure"} /\ ok ->
                  \* lines 63-72: arm the repeating timer
                  /\ intervalId' = NewTimer
                  /\ timers' = timers \cup {NewTimer}
                  /\ armedAt' = Arm(armedAt, NewTimer, config.backupInterval)
                  /\ backupDir' = dir
                  /\ metadata' = md
                  /\ lastEvent' = Event(kind, Outcome(p, ok, ran))
             [] kind = "tick" /\ ok ->
                  \* lines 65-66: the callback goes on to cleanupOldBackups
                  /\ \E c \in cleanupOldBackups(dir, md, config) :
                        /\ backupDir' = Unlink(dir, c.deleted)
                        /\ metadata' = UnlinkMetadata(md, c.deleted)
                        /\ lastEvent' = Event(kind, IF c.failed THEN "cleanup failed"
                                                    ELSE Outcome(p, ok, ran))
                  /\ UNCHANGED <<intervalId, timers, armedAt>>
             [] OTHER ->
                  \* start and forceBackup reject; the callback's catch logs
                  /\ backupDir' = dir
                  /\ metadata' = md
                  /\ lastEvent' = Event(kind, Outcome(p, ok, ran))
                  /\ timers' = TimersAfterRejection(kind)
                  /\ UNCHANGED <<intervalId, armedAt>>

----------------------------------------------------------------------------
(* NetworkRecoveryManager: what follows a restore step that settled.       *)

Push(s, e) == Append(s, e)

EmptyStats ==
    [totalBlocksRecovered |-> 0, totalTransactionsRecovered |-> 0,
     totalAddressesRecovered |-> 0, errors |-> <<>>, warnings |-> <<>>]

RestoreError(mode) ==
    CASE mode = "full"        -> "Backup restoration failed"
      [] mode = "incremental" -> "Backup range restoration failed"
      [] OTHER                -> "Address-specific restoration failed"

ReconstructionWarning(mode) ==
    CASE mode = "full"        -> "State reconstruction failed"
      [] mode = "incremental" -> "Range state reconstruction failed"
      [] OTHER                -> "Address state reconstruction failed"

\* validateRecovery: the warnings it adds for the statistics it read
ValidationWarnings(warnings, stats) ==
    LET w1 == IF stats.totalTransactions = 0
              THEN Push(warnings, "No transactions recovered") ELSE warnings
    IN  IF stats.totalBlocks = 0 THEN Push(w1, "No blocks recovered") ELSE w1

\* calculateStateHash: keccak256 of the JSON text of stateData, one hash per
\* text; the model keeps the hashed fields that vary (network and chainId
\* are fixed by the configuration)
calculateStateHash(stats, timestamp) ==
    [totalTransactions |-> stats.totalTransactions,
     totalBlocks       |-> stats.totalBlocks,
     uniqueAddresses   |-> stats.uniqueAddresses,
     timestamp         |-> timestamp]

\* the report that reconstructNetworkState / reconstructStateForRange /
\* reconstructStateForAddresses write
StateReport(stats, time) ==
    File([totalTransactions  |-> stats.totalTransactions,
          totalBlocks        |-> stats.totalBlocks,
          uniqueAddresses    |-> stats.uniqueAddresses,
          reconstructionTime |-> time,
          stateHash          |-> calculateStateHash(stats, time)])

IsValidWithoutWarnings(st) == st.errors = <<>> /\ st.warnings = <<>>

\* line 444: isValid of the validation report
IsValid(st) == st.errors = <<>>

\* Steps 2 and 3 of performFullRecovery / performIncrementalRecovery /
\* performSelectiveRecovery, after restoration returned with stats st:
\* reconOk and valOk say whether the report files could be written.
reconstructAndValidate(st, reconOk, valOk, time) ==
    LET mode   == recoveryConfig.recoveryMode
        recon  == recoveryConfig.enableStateReconstruction
        st1    == IF recon /\ ~reconOk
                  THEN [st EXCEPT !.warnings = Push(@, ReconstructionWarning(mode))]
                  ELSE st
        stats  == getDatabaseStats(database)
        st2    == [st1 EXCEPT !.warnings = ValidationWarnings(@, stats)]
        st3    == IF valOk THEN st2
                  ELSE [st2 EXCEPT !.errors = Push(@, "Validation failed")]
    IN  /\ recoveryStats' = st3
        /\ stateReport' = IF recon /\ reconOk THEN StateReport(stats, time)
                          ELSE stateReport
        /\ validationReport' =
              IF valOk
              THEN File([isValid  |-> IsValid(st2),
                         warnings |-> st2.warnings,
                         errors   |-> st2.errors])
              ELSE validationReport
        /\ recoveryPhase' = recoveryPhase
                \o (IF recon THEN <<"Reconstructing">> ELSE <<>>)
                \o <<"Validating", "Done">>

RestoreThrowsNever(ok) == FALSE

\* lines 285-288 and 298-301: the catch records the error and rethrows
RestoreThrows(ok) == ~ok

\* restoreFromAllBackups / restoreFromBackupRange: backupTransactions settled
restoreSettled(p, ok, dir, time) ==
    /\ backupDir' = dir
    /\ UNCHANGED <<recoveryConfig, recoveryRuns, segmentsAtStart, errorsAtStart>>
    /\ IF ~RestoreThrows(ok)
       THEN \E reconOk \in BOOLEAN, valOk \in BOOLEAN :
              reconstructAndValidate(
                 [recoveryStats EXCEPT !.totalTransactionsRecovered =
                                          getDatabaseStats(database).totalTransactions],
                 reconOk, valOk, time)
       ELSE /\ recoveryStats' =
                 [recoveryStats EXCEPT !.errors =
                     Push(Push(@, RestoreError(recoveryConfig.recoveryMode)),
                          "Recovery failed")]
            /\ recoveryPhase' = Append(recoveryPhase, "Failed")
            /\ UNCHANGED <<validationReport, stateReport>>

----------------------------------------------------------------------------
(* The call of p settles at time t with the segment directory dir and the *)
(* cursor file md; its caller continues in the same turn of the event     *)
(* loop (no I/O lies between the await and the statements that follow).   *)

Settle(p, ok, ran, dir, md, t) ==
    /\ now' = t
    /\ procs' = [procs EXCEPT ![p] = IdleProc]
    /\ UNCHANGED <<dbVars, toolVars, chainVars>>
    /\ CASE procs[p].kind = "direct" ->
              /\ backupDir' = dir
              /\ metadata' = md
              /\ lastEvent' = Event("direct", Outcome(p, ok, ran))
              /\ UNCHANGED <<monitorVars, recVars>>
         [] procs[p].kind = "recovery" ->
              /\ restoreSettled(p, ok, dir, t)
              /\ metadata' = md
              /\ lastEvent' = Event("recovery", Outcome(p, ok, ran))
              /\ UNCHANGED monitorVars
         [] OTHER ->
              /\ performBackupSettled(p, ok, ran, dir, md)
              /\ UNCHANGED recVars

----------------------------------------------------------------------------
(* TransactionBackupManager.backupTransactions, one step per await.       *)

\* lines 46-50: called from the command line with optional bounds
BackupCall(fromArg, toArg) ==
    /\ Active = {}
    /\ Cardinality(DOMAIN backupDir) < MaxSegments
    /\ procs' = [procs EXCEPT ![FreeProc] =
                    EnterBackup([IdleProc EXCEPT !.kind = "direct"], fromArg, toArg)]
    /\ UNCHANGED <<dbVars, toolVars, now, chainVars, storeVars, monitorVars, lastEvent, recVars>>

getBlockNumberThrowsLate(p) ==
    Settle(p, FALSE, TRUE, backupDir,
           saveBackupMetadata(metadata, backupDir, height, now), now)

\* line 50: the await throws out of backupTransactions before anything is
\* read or written
getBlockNumberThrows(p) == Settle(p, FALSE, TRUE, backupDir, metadata, now)

\* lines 50-62: provider.getBlockNumber() answers, or the node is unreachable
BT_Height(p) ==
    /\ procs[p].pc = "bt_height"
    /\ \/ /\ procs' = [procs EXCEPT ![p] = ResolveRange(@, height, metadata)]
          /\ UNCHANGED <<dbVars, toolVars, now, chainVars, storeVars, monitorVars,
                         lastEvent, recVars>>
       \/ getBlockNumberThrows(p)

BufferDropped(buffer) == <<>>

\* lines 108-109 and 113: the throw of saveIncrementalBackup skips
\* `transactions.length = 0`, the buffer keeps what it held
BufferAfterFailedFlush(buffer) == buffer

\* lines 68-116: one iteration of the for loop.  The fetches of one block
\* (getBlock, then getTransaction and getTransactionReceipt per hash) are
\* taken together.
BT_Block(p) ==
    LET proc == procs[p]
        n    == proc.blockNum
        next == [proc EXCEPT !.blockNum = n + 1, !.fetched = @ + 1]
    IN  /\ proc.pc = "bt_loop"
        /\ n <= proc.toBlock
        /\ UNCHANGED <<dbVars, toolVars, chainVars, metadata, monitorVars, lastEvent, recVars>>
        /\ \/ \* getBlock throws: the catch of line 113 logs, the block is skipped
              /\ procs' = [procs EXCEPT ![p] = next]
              /\ UNCHANGED <<now, backupDir>>
           \/ \* the chain has no such block yet: getBlock is null, continue
              /\ n > height
              /\ procs' = [procs EXCEPT ![p] = next]
              /\ UNCHANGED <<now, backupDir>>
           \/ /\ n <= height
              /\ \E kept \in SUBSET (1..Len(ChainBlock(n))) :
                   LET buffer    == proc.transactions \o StripIndex(Extracted(n, kept))
                       processed == proc.processedBlocks + 1
                       counted   == [next EXCEPT !.transactions = buffer,
                                                 !.processedBlocks = processed,
                                                 !.extracted =
                                                    @ \o StripIndex(Extracted(n, kept))]
                   IN  IF processed % FlushEvery = 0
                       THEN \E t \in Later :
                              /\ now' = t
                              /\ \/ \* line 108: the segment is written
                                    /\ backupDir' =
                                          saveIncrementalBackup(backupDir, buffer, n, t)
                                    /\ procs' = [procs EXCEPT ![p] =
                                          [counted EXCEPT !.transactions = <<>>,
                                                          !.written = @ + 1,
                                                          !.segments =
                                                             @ \cup {FileName(n, t)}]]
                                 \/ \* writeFileSync throws into the catch of line 113
                                    /\ backupDir' = backupDir
                                    /\ procs' = [procs EXCEPT ![p] =
                                          [counted EXCEPT !.transactions =
                                              BufferAfterFailedFlush(buffer)]]
                       ELSE /\ procs' = [procs EXCEPT ![p] = counted]
                            /\ UNCHANGED <<now, backupDir>>

CursorTargetProcessed(proc) == proc.fromBlock + proc.processedBlocks - 1

\* line 124: saveBackupMetadata(toBlock), whatever the loop managed to fetch
CursorTarget(proc) == proc.toBlock

\* lines 118-127: the loop is over; flush the remainder and write the cursor
BT_Finish(p) ==
    LET proc == procs[p]
    IN  /\ proc.pc = "bt_loop"
        /\ proc.blockNum > proc.toBlock
        /\ \E t \in Later :
             IF proc.transactions # <<>>
             THEN \/ LET dir == saveIncrementalBackup(backupDir, proc.transactions,
                                                      proc.toBlock, t)
                     IN  Settle(p, TRUE, TRUE, dir,
                                saveBackupMetadata(metadata, dir, CursorTarget(proc), t), t)
                  \/ \* writeFileSync throws out of backupTransactions
                     Settle(p, FALSE, TRUE, backupDir, metadata, t)
             ELSE Settle(p, TRUE, TRUE, backupDir,
                         saveBackupMetadata(metadata, backupDir, CursorTarget(proc), t), t)

\* a new block is mined
Mine ==
    /\ height < MaxHeight
    /\ height' = height + 1
    /\ UNCHANGED <<dbVars, toolVars, now, storeVars, procs, monitorVars, lastEvent, recVars>>

----------------------------------------------------------------------------
(* AutoBackupMonitor.                                                      *)

\* performBackup up to its first await (lines 94-98)
EnterPerformBackup(kind) ==
    /\ Active # Procs
    /\ cycles < MaxCycles
    /\ cycles' = cycles + 1
    /\ procs' = [procs EXCEPT ![FreeProc] =
                    [IdleProc EXCEPT !.kind = kind, !.pc = "pb_height"]]

\* the calls of start() that await their first performBackup
Starting == {p \in Procs : procs[p].kind \in {"start", "reconfigure"}}

AlreadyRunningIgnored == FALSE

\* line 49
AlreadyRunning == isRunning

start ==
    /\ UNCHANGED <<dbVars, toolVars, now, chainVars, storeVars, recVars,
                   intervalId, timers, armedAt, config, lastBackupBlock,
                   prevCycleBlock>>
    /\ IF AlreadyRunning
       THEN \* lines 49-52: a warning is logged and the call returns
            /\ lastEvent' = Event("start", "already running")
            /\ UNCHANGED <<isRunning, procs, stopReturned, cycles>>
       ELSE \* lines 54-60
            /\ Cardinality(timers) + Cardinality(Starting) < MaxTimers
            /\ isRunning' = TRUE
            /\ stopReturned' = FALSE
            /\ EnterPerformBackup("start")
            /\ UNCHANGED lastEvent

CyclesAborted(inFlight) ==
    [p \in Procs |-> IF inFlight[p].kind \in {"start", "tick", "force"}
                     THEN IdleProc ELSE inFlight[p]]

\* lines 75-91: stop() holds no reference to the calls in flight
CyclesAfterStop(inFlight) == inFlight

stop ==
    /\ UNCHANGED <<dbVars, toolVars, now, chainVars, storeVars, recVars,
                   config, lastBackupBlock, prevCycleBlock, cycles>>
    /\ procs' = CyclesAfterStop(procs)
    /\ stopReturned' = TRUE
    /\ IF ~isRunning
       THEN \* lines 76-79: a warning is logged and the call returns
            /\ lastEvent' = Event("stop", "not running")
            /\ UNCHANGED <<isRunning, intervalId, timers, armedAt>>
       ELSE \* lines 81-90
            /\ isRunning' = FALSE
            /\ timers' = IF intervalId # 0 THEN timers \ {intervalId} ELSE timers
            /\ armedAt' = IF intervalId # 0 THEN Disarm(armedAt, intervalId) ELSE armedAt
            /\ intervalId' = 0
            /\ lastEvent' = Event("stop", "stopped")

\* { ...this.config, ...newConfig }
Merge(cfg, newConfig) ==
    [k \in DOMAIN cfg |-> IF k \in DOMAIN newConfig THEN newConfig[k] ELSE cfg[k]]

\* lines 179-188.  stop() has no await and start() runs up to the await of
\* its first performBackup, so the three run in one turn of the event loop;
\* the call goes on when that performBackup settles.
updateConfig(newConfig) ==
    /\ config' = Merge(config, newConfig)
    /\ UNCHANGED <<dbVars, toolVars, now, chainVars, storeVars, recVars,
                   lastBackupBlock, prevCycleBlock>>
    /\ IF ~isRunning
       THEN /\ lastEvent' = Event("updateConfig", "merged")
            /\ UNCHANGED <<isRunning, intervalId, timers, armedAt, procs,
                           stopReturned, cycles>>
       ELSE /\ Cardinality(timers \ {intervalId}) + Cardinality(Starting) < MaxTimers
            \* stop(), lines 83-88
            /\ timers' = IF intervalId # 0 THEN timers \ {intervalId} ELSE timers
            /\ armedAt' = IF intervalId # 0 THEN Disarm(armedAt, intervalId) ELSE armedAt
            /\ intervalId' = 0
            \* start(), lines 57-60
            /\ isRunning' = TRUE
            /\ stopReturned' = FALSE
            /\ EnterPerformBackup("reconfigure")
            /\ UNCHANGED lastEvent

\* an armed timer fires: the callback of lines 63-70 starts
Tick(t) ==
    /\ t \in timers
    /\ EnterPerformBackup("tick")
    /\ UNCHANGED <<dbVars, toolVars, now, chainVars, storeVars, recVars, lastEvent, isRunning,
                   intervalId, timers, armedAt, config, lastBackupBlock, stopReturned,
                   prevCycleBlock>>

forceBackup ==
    /\ EnterPerformBackup("force")
    /\ UNCHANGED <<dbVars, toolVars, now, chainVars, storeVars, recVars, lastEvent, isRunning,
                   intervalId, timers, armedAt, config, lastBackupBlock, stopReturned,
                   prevCycleBlock>>

\* line 100
NoNewBlocks(currentBlock) == currentBlock <= lastBackupBlock

\* lines 98-106: provider.getBlockNumber() of performBackup answers or throws
PB_Height(p) ==
    /\ procs[p].pc = "pb_height"
    /\ \/ Settle(p, FALSE, FALSE, backupDir, metadata, now)
       \/ /\ NoNewBlocks(height)
          /\ Settle(p, TRUE, FALSE, backupDir, metadata, now)
       \/ /\ ~NoNewBlocks(height)
          /\ procs' = [procs EXCEPT ![p] =
                EnterBackup([@ EXCEPT !.currentBlock = height],
                            lastBackupBlock + 1, height)]
          /\ UNCHANGED <<dbVars, toolVars, now, chainVars, storeVars, monitorVars,
                         lastEvent, recVars>>

----------------------------------------------------------------------------
(* TransactionRestoreManager.restoreFromBackup.                            *)

\* an optional file name that was not passed
NoName == <<>>

\* lines 39-92
restoreFromBackup(backupFile) ==
    /\ UNCHANGED <<database, lastBatch, exported, chainVars, storeVars, procs,
                   monitorVars, recVars>>
    /\ IF backupFile # NoName /\ backupFile \notin listBackups(backupDir, metadata)
       THEN \* line 51
            /\ lastEvent' = Event("restore", "Backup file not found")
            /\ UNCHANGED <<now, restored>>
       ELSE LET backupFiles == IF backupFile # NoName THEN <<backupFile>>
                               ELSE getAllBackupFiles(backupDir, metadata)
            IN  \E unreadable \in SUBSET Range(backupFiles), t \in Later :
                  \* a file that cannot be read or parsed, and the cursor
                  \* file, which has no transactions, end in the catch of
                  \* line 75
                  LET read == SelectSeq(backupFiles,
                                LAMBDA f : f # MetadataName /\ f \notin unreadable)
                  IN  /\ now' = t
                      /\ \/ /\ restored' = saveRestoredTransactions(
                                              consolidate(backupDir, read), read, t)
                            /\ lastEvent' = Event("restore", "completed")
                         \/ \* writeFileSync throws out of restoreFromBackup
                            /\ lastEvent' = Event("restore", "failed")
                            /\ UNCHANGED restored

----------------------------------------------------------------------------
(* NetworkRecoveryManager.performRecovery.                                 *)

\* The methods class TransactionBackupManager declares.  listBackupFiles,
\* which restoreTransactionsForAddresses calls (line 309), is not among
\* them: the call throws a TypeError inside the try of line 307.
BackupManagerMethods ==
    {"backupTransactions", "getLastBackupBlock", "saveIncrementalBackup",
     "saveBackupMetadata", "getBackupFileCount", "listBackups", "getBackupInfo"}

Targets(list) == [defined |-> TRUE, list |-> list]

NoTargets == [defined |-> FALSE, list |-> <<>>]

\* lines 243 and 262: the scope an incremental or selective run insists on
MissingScope(cfg) ==
    CASE cfg.recoveryMode = "incremental" ->
            Falsy(cfg.startBlock) \/ Falsy(cfg.endBlock)
      [] cfg.recoveryMode = "selective" ->
            ~cfg.targetAddresses.defined \/ Len(cfg.targetAddresses.list) = 0
      [] OTHER -> FALSE

RecoveryFails(trace, messages) ==
    /\ recoveryStats' = [recoveryStats EXCEPT !.errors = @ \o messages]
    /\ recoveryPhase' = trace
    /\ UNCHANGED <<procs, validationReport, stateReport>>

performRecovery ==
    LET cfg == recoveryConfig
    IN  /\ recoveryRuns < MaxRuns
        /\ Active = {}
        /\ recoveryRuns' = recoveryRuns + 1
        /\ segmentsAtStart' = backupDir
        /\ errorsAtStart' = recoveryStats.errors
        /\ UNCHANGED <<dbVars, toolVars, now, chainVars, storeVars, monitorVars, lastEvent,
                       recoveryConfig>>
        /\ IF MissingScope(cfg)
           THEN \* the throw of line 244 / 264 lands in the catch of line 218
                RecoveryFails(<<"Failed">>, <<"Recovery failed">>)
           ELSE IF cfg.recoveryMode = "selective"
           THEN \* restoreTransactionsForAddresses
                IF "listBackupFiles" \in BackupManagerMethods
                THEN FALSE
                ELSE RecoveryFails(<<"Restoring", "Failed">>,
                                   <<RestoreError("selective"), "Recovery failed">>)
           ELSE \* restoreFromAllBackups / restoreFromBackupRange call
                \* backupManager.backupTransactions (lines 282 and 295)
                /\ procs' = [procs EXCEPT ![FreeProc] =
                      EnterBackup([IdleProc EXCEPT !.kind = "recovery"],
                                  IF cfg.recoveryMode = "full" THEN Undefined
                                  ELSE cfg.startBlock,
                                  IF cfg.recoveryMode = "full" THEN Undefined
                                  ELSE cfg.endBlock)]
                /\ recoveryPhase' = <<"Restoring">>
                /\ UNCHANGED <<recoveryStats, validationReport, stateReport>>

----------------------------------------------------------------------------
(* Initial states.                                                         *)

NotExported == [csv |-> NoFile, result |-> "none"]

DbIdle ==
    /\ database = EmptyDatabase
    /\ lastBatch = <<>>
    /\ restored = NoFile
    /\ exported = NotExported

EngineIdle ==
    /\ now = 0
    /\ metadata = NoFile
    /\ backupDir = NoSegments
    /\ procs = [p \in Procs |-> IdleProc]
    /\ lastEvent = Event("none", "none")

\* defaultConfig (lines 192-200), with the limits a backup-config.json may set
Config(cleanup, maxFiles) ==
    [backupInterval |-> 300000, maxBackupFiles |-> maxFiles,
     enableAutoCleanup |-> cleanup]

MonitorIdle ==
    /\ isRunning = FALSE
    /\ intervalId = 0
    /\ timers = {}
    /\ armedAt = NoTimers
    /\ lastBackupBlock = 0
    /\ stopReturned = FALSE
    /\ prevCycleBlock = -1
    /\ cycles = 0

RecoveryConfig(mode, startBlock, endBlock, targets, recon) ==
    [recoveryMode |-> mode, startBlock |-> startBlock, endBlock |-> endBlock,
     targetAddresses |-> targets, enableStateReconstruction |-> recon]

RecoveryIdle ==
    /\ recoveryStats = EmptyStats
    /\ recoveryPhase = <<>>
    /\ recoveryRuns = 0
    /\ validationReport = NoFile
    /\ segmentsAtStart = NoSegments
    /\ stateReport = NoFile
    /\ errorsAtStart = <<>>

----------------------------------------------------------------------------
(* The document store on its own: any sequence of saveTransactions calls.  *)

InitStore ==
    /\ DbIdle /\ EngineIdle /\ MonitorIdle /\ RecoveryIdle
    /\ height = 0
    /\ config = Config(TRUE, 100)
    /\ recoveryConfig = RecoveryConfig("full", Undefined, Undefined, NoTargets, TRUE)

Ingest ==
    /\ \E batch \in Batches : saveTransactions(batch)
    /\ UNCHANGED <<toolVars, chainVars, storeVars, procs, monitorVars, lastEvent, recVars>>

Export ==
    /\ exportToCSV
    /\ UNCHANGED <<chainVars, storeVars, procs, monitorVars, lastEvent, recVars>>

NextStore == Ingest \/ Export

SpecStore == InitStore /\ [][NextStore]_vars

----------------------------------------------------------------------------
(* The backup engine on its own: backupTransactions called from the        *)
(* command line, one call at a time, while the chain grows.                *)

BlockArgs == {Undefined} \cup (0..MaxHeight)

InitBackup ==
    /\ DbIdle /\ EngineIdle /\ MonitorIdle /\ RecoveryIdle
    /\ height = 0
    /\ config = Config(TRUE, 100)
    /\ recoveryConfig = RecoveryConfig("full", Undefined, Undefined, NoTargets, TRUE)

NextBackup ==
    \/ Mine
    \/ \E fromArg \in BlockArgs, toArg \in BlockArgs : BackupCall(fromArg, toArg)
    \/ \E p \in Procs : BT_Height(p)
    \/ \E p \in Procs : BT_Block(p)
    \/ \E p \in Procs : BT_Finish(p)

SpecBackup == InitBackup /\ [][NextBackup]_vars

----------------------------------------------------------------------------
(* The monitor: start, stop, forceBackup and the timer, over a growing     *)
(* chain.  Every call runs up to its next await and then yields.           *)

InitMonitor ==
    /\ DbIdle /\ EngineIdle /\ MonitorIdle /\ RecoveryIdle
    /\ height = 0
    /\ config \in {Config(TRUE, 1), Config(FALSE, 1)}
    /\ recoveryConfig = RecoveryConfig("full", Undefined, Undefined, NoTargets, TRUE)

NextMonitor ==
    \/ Mine
    \/ start
    \/ stop
    \/ forceBackup
    \/ \E t \in timers : Tick(t)
    \/ \E p \in Procs : PB_Height(p)
    \/ \E p \in Procs : BT_Height(p)
    \/ \E p \in Procs : BT_Block(p)
    \/ \E p \in Procs : BT_Finish(p)

SpecMonitor == InitMonitor /\ [][NextMonitor]_vars

----------------------------------------------------------------------------
(* The timer on its own: the monitor as start() leaves it on a chain at    *)
(* height 0 (its first cycle found no new block and the timer was armed),  *)
(* then only the timer's callbacks, over a growing chain.                  *)

InitTicks ==
    /\ DbIdle /\ RecoveryIdle
    /\ now = 0
    /\ height = 0
    /\ metadata = NoFile
    /\ backupDir = NoSegments
    /\ procs = [p \in Procs |-> IdleProc]
    /\ lastEvent = Event("start", "skipped")
    /\ isRunning = TRUE
    /\ intervalId = 1
    /\ timers = {1}
    /\ armedAt = Arm(NoTimers, 1, 300000)
    /\ lastBackupBlock = 0
    /\ stopReturned = FALSE
    /\ prevCycleBlock = -1
    /\ cycles = 0
    /\ config = Config(TRUE, 1)
    /\ recoveryConfig = RecoveryConfig("full", Undefined, Undefined, NoTargets, TRUE)

NextTicks ==
    \/ Mine
    \/ \E t \in timers : Tick(t)
    \/ \E p \in Procs : PB_Height(p)
    \/ \E p \in Procs : BT_Height(p)
    \/ \E p \in Procs : BT_Block(p)
    \/ \E p \in Procs : BT_Finish(p)

SpecTicks == InitTicks /\ [][NextTicks]_vars

----------------------------------------------------------------------------
(* Recovery: one NetworkRecoveryManager over segments that earlier backups *)
(* left behind, with the recovery database empty and the chain at rest.    *)

Segment(blockNumber, timestamp, transactions) ==
    [lastBackupBlock |-> blockNumber, transactions |-> transactions,
     backupTimestamp |-> timestamp]

\* backups of blocks 0..1 and, overlapping, of blocks 1..2
SegmentA == Segment(1, 0, ChainBlock(1))

SegmentB == Segment(2, 0, ChainBlock(1) \o ChainBlock(2))

Dir(segments) ==
    [f \in {FileName(g.lastBackupBlock, g.backupTimestamp) : g \in segments} |->
        CHOOSE g \in segments : FileName(g.lastBackupBlock, g.backupTimestamp) = f]

SeedDirs == {Dir({}), Dir({SegmentA}), Dir({SegmentA, SegmentB})}

SeedMetadata(dir) ==
    IF DOMAIN dir = {} THEN NoFile
    ELSE LET last == Max({f[1] : f \in DOMAIN dir})
         IN  saveBackupMetadata(NoFile, dir, last, 0)

ScopeBlocks == {Undefined} \cup (0..2)

RecoveryConfigs ==
    {RecoveryConfig("full", Undefined, Undefined, NoTargets, r) : r \in BOOLEAN}
    \cup {RecoveryConfig("incremental", a, b, NoTargets, r) :
            a \in ScopeBlocks, b \in ScopeBlocks, r \in BOOLEAN}
    \cup {RecoveryConfig("selective", Undefined, Undefined, t, r) :
            t \in {NoTargets, Targets(<<>>), Targets(<<"0xaa">>), Targets(<<"0xbb">>)},
            r \in BOOLEAN}

InitRecovery ==
    /\ DbIdle /\ MonitorIdle /\ RecoveryIdle
    /\ now = 0
    /\ height = 2
    /\ backupDir \in SeedDirs
    /\ metadata = SeedMetadata(backupDir)
    /\ procs = [p \in Procs |-> IdleProc]
    /\ lastEvent = Event("none", "none")
    /\ config = Config(TRUE, 100)
    /\ recoveryConfig \in RecoveryConfigs

NextRecovery ==
    \/ performRecovery
    \/ \E p \in Procs : BT_Height(p)
    \/ \E p \in Procs : BT_Block(p)
    \/ \E p \in Procs : BT_Finish(p)

SpecRecovery == InitRecovery /\ [][NextRecovery]_vars

----------------------------------------------------------------------------
(* Consolidation: restoreFromBackup over segments that earlier backups     *)
(* left behind.  Block 2 holds two transactions; the first backup of it    *)
(* lost one of them, a later backup has both; the backup of block 10 was   *)
(* written last and has the name that sorts first.                         *)

RestoreSegments ==
    { Segment(2, 0, <<Tx(1, "0xc1", "0xAA", "0xbb"), Tx(2, "0xd2", "0xbb", "0xAA")>>),
      Segment(2, 1, <<Tx(2, "0xc2", "0xbb", ""), Tx(2, "0xd2", "0xbb", "0xAA")>>),
      Segment(10, 1, <<Tx(10, "0xca", "0xAA", "0xbb")>>) }

RestoreNames == {FileName(g.lastBackupBlock, g.backupTimestamp) : g \in RestoreSegments}

InitRestore ==
    /\ DbIdle /\ MonitorIdle /\ RecoveryIdle
    /\ now = 1
    /\ height = 0
    /\ backupDir \in {Dir(G) : G \in SUBSET RestoreSegments}
    /\ metadata \in {NoFile, SeedMetadata(backupDir)}
    /\ procs = [p \in Procs |-> IdleProc]
    /\ lastEvent = Event("none", "none")
    /\ config = Config(TRUE, 100)
    /\ recoveryConfig = RecoveryConfig("full", Undefined, Undefined, NoTargets, TRUE)

NextRestore ==
    \E backupFile \in {NoName, MetadataName} \cup RestoreNames :
        restoreFromBackup(backupFile)

SpecRestore == InitRestore /\ [][NextRestore]_vars

----------------------------------------------------------------------------
(* A restart: a new AutoBackupMonitor is constructed and started over the  *)
(* segments and the cursor that earlier backups left behind, with the      *)
(* chain at rest.                                                          *)

InitRestart ==
    /\ DbIdle /\ MonitorIdle /\ RecoveryIdle
    /\ now = 0
    /\ height = 2
    /\ backupDir \in SeedDirs
    /\ metadata = SeedMetadata(backupDir)
    /\ procs = [p \in Procs |-> IdleProc]
    /\ lastEvent = Event("none", "none")
    /\ config \in {Config(TRUE, 100), Config(FALSE, 100)}
    /\ recoveryConfig = RecoveryConfig("full", Undefined, Undefined, NoTargets, TRUE)

NextRestart ==
    \/ start
    \/ \E t \in timers : Tick(t)
    \/ \E p \in Procs : PB_Height(p)
    \/ \E p \in Procs : BT_Height(p)
    \/ \E p \in Procs : BT_Block(p)
    \/ \E p \in Procs : BT_Finish(p)

SpecRestart == InitRestart /\ [][NextRestart]_vars

----------------------------------------------------------------------------
(* Reconfiguration: start, stop and updateConfig on a monitor whose chain  *)
(* stands at height 1.                                                     *)

NoFields == [k \in {} |-> 0]

Partials ==
    { NoFields,
      [backupInterval |-> 1000],
      [maxBackupFiles |-> 2, enableAutoCleanup |-> FALSE] }

InitReconfigure ==
    /\ DbIdle /\ EngineIdle /\ MonitorIdle /\ RecoveryIdle
    /\ height = 1
    /\ config = Config(TRUE, 100)
    /\ recoveryConfig = RecoveryConfig("full", Undefined, Undefined, NoTargets, TRUE)

NextReconfigure ==
    \/ start
    \/ stop
    \/ \E newConfig \in Partials : updateConfig(newConfig)
    \/ \E t \in timers : Tick(t)
    \/ \E p \in Procs : PB_Height(p)
    \/ \E p \in Procs : BT_Height(p)
    \/ \E p \in Procs : BT_Block(p)
    \/ \E p \in Procs : BT_Finish(p)

SpecReconfigure == InitReconfigure /\ [][NextReconfigure]_vars

----------------------------------------------------------------------------
(* Properties.                                                             *)

Hashes(txs) == {txs[i].transactionHash : i \in 1..Len(txs)}

\* C1  Idempotent ingestion: in every state of the store, ingesting the
\* batch that was ingested last once more leaves the primary collection,
\* the block index and the address index as they are.
IdempotentIngestion ==
    LET again == saveToJsonDatabase(database, lastBatch, now)
    IN  /\ Primary(again) = Primary(database)
        /\ BlockIndex(again) = BlockIndex(database)
        /\ AddressIndex(again) = AddressIndex(database)

\* the batch ingested last held the same hash twice, with different fields
IdempotentIngestionWitness ==
    /\ Len(lastBatch) = 2
    /\ lastBatch[1].transactionHash = lastBatch[2].transactionHash
    /\ lastBatch[1].blockNumber # lastBatch[2].blockNumber
    /\ Len(Primary(database)) = 2

\* C2  Index consistency: every stored record has its hash in exactly the
\* block bucket of its blockNumber and the address buckets of its from and
\* non-empty to, and no bucket holds a hash that is not stored.
IndexConsistency ==
    LET primary   == Primary(database)
        blocks    == BlockIndex(database)
        addresses == AddressIndex(database)
    IN  /\ \A i \in 1..Len(primary) :
             LET r == primary[i]
             IN  /\ r.blockNumber \in DOMAIN blocks
                 /\ \A b \in DOMAIN blocks :
                       Includes(blocks[b], r.transactionHash) <=> b = r.blockNumber
                 /\ r.from \in DOMAIN addresses
                 /\ r.to # "" => r.to \in DOMAIN addresses
                 /\ \A a \in DOMAIN addresses :
                       Includes(addresses[a], r.transactionHash)
                          <=> (a = r.from \/ (r.to # "" /\ a = r.to))
        /\ \A b \in DOMAIN blocks : Range(blocks[b]) \subseteq Hashes(primary)
        /\ \A a \in DOMAIN addresses : Range(addresses[a]) \subseteq Hashes(primary)

\* C3  Cursor monotonicity: no step lowers the lastBackupBlock of the
\* persisted cursor, and a cursor once written stays.
CursorMonotonic ==
    [][metadata.exists =>
         /\ metadata'.exists
         /\ metadata'.data.lastBackupBlock >= metadata.data.lastBackupBlock]_vars

\* the latest performRecovery is over, and how it ended
RecoveryEnded(mode, endings) ==
    /\ recoveryConfig.recoveryMode = mode
    /\ recoveryPhase # <<>>
    /\ recoveryPhase[Len(recoveryPhase)] \in endings

\* the records of the segments that existed when the run began
SegmentRecords(dir) == UNION {Range(dir[f].transactions) : f \in DOMAIN dir}

NoDuplicateHash(txs) ==
    \A i, j \in 1..Len(txs) : txs[i].transactionHash = txs[j].transactionHash => i = j

\* C4  Full recovery: when a full recovery is done, the primary collection
\* holds one record for every hash of the segments, and each hash once.
FullRecoveryRestoresSegments ==
    RecoveryEnded("full", {"Done"}) =>
        /\ Hashes(Primary(database)) =
              {r.transactionHash : r \in SegmentRecords(segmentsAtStart)}
        /\ NoDuplicateHash(Primary(database))

\* C5  Incremental recovery: when an incremental recovery is done, the
\* primary collection holds the segment records of [startBlock, endBlock]
\* and no record outside that range.
IncrementalRecoveryRange ==
    RecoveryEnded("incremental", {"Done"}) =>
        Range(Primary(database)) =
           {r \in SegmentRecords(segmentsAtStart) :
               /\ recoveryConfig.startBlock <= r.blockNumber
               /\ r.blockNumber <= recoveryConfig.endBlock}

TargetRecords(dir, targets) ==
    {r \in SegmentRecords(dir) :
        \E i \in 1..Len(targets) :
            \/ toLowerCase(r.from) = toLowerCase(targets[i])
            \/ toLowerCase(r.to) = toLowerCase(targets[i])}

\* C6  Selective recovery: when a selective recovery with a non-empty
\* address set is over, the primary collection holds exactly the segment
\* records that involve a target address, compared without regard to case,
\* and totalTransactionsRecovered is their number.
SelectiveRecoveryPrecision ==
    (/\ RecoveryEnded("selective", {"Done", "Failed"})
     /\ ~MissingScope(recoveryConfig)) =>
        LET wanted == TargetRecords(segmentsAtStart, recoveryConfig.targetAddresses.list)
        IN  /\ Range(Primary(database)) = wanted
            /\ recoveryStats.totalTransactionsRecovered = Cardinality(wanted)

\* p takes a step
Steps(p) == procs'[p] # procs[p]

\* C7  Idle-chain tick: a timer tick that learns a height not above the
\* block the previous cycle reached (or no height at all) ends without
\* having fetched a block; it writes no segment, leaves the cursor alone,
\* and the monitor stays as running and as armed as it was.
IdleTick ==
    [][\A p \in Procs :
          (/\ procs[p].kind = "tick"
           /\ procs[p].pc = "pb_height"
           /\ Steps(p)
           /\ prevCycleBlock # -1
           /\ height <= prevCycleBlock)
          => /\ procs'[p] = IdleProc
             /\ procs[p].fetched = 0
             /\ DOMAIN backupDir' \subseteq DOMAIN backupDir
             /\ \A f \in DOMAIN backupDir' : backupDir'[f] = backupDir[f]
             /\ metadata' = metadata
             /\ isRunning' = isRunning
             /\ intervalId' = intervalId
             /\ timers' = timers]_vars

InBackup(p) == procs[p].kind \in {"start", "tick", "force"} /\ procs[p].pc # "pb_height"

\* C8  Tick serialization: at no time are two backup cycles of the monitor
\* inside backupTransactions together.
TickSerialization == Cardinality({p \in Procs : InBackup(p)}) <= 1

\* C9  stop() cancels the timer: from the return of stop() until the next
\* call of start(), no timer tick begins a backup cycle.
StopCancelsTimer ==
    [][stopReturned =>
          \A p \in Procs : ~(procs[p].kind # "tick" /\ procs'[p].kind = "tick")]_vars

\* C10  start() is idempotent: a start() called while the monitor is
\* running begins no cycle, arms no timer and changes nothing of the
\* monitor, the cursor or the segments.
StartIdempotent ==
    [][(isRunning /\ start) =>
          UNCHANGED <<isRunning, intervalId, timers, config, lastBackupBlock,
                      procs, cycles, metadata, backupDir>>]_vars

\* start() was called, and ignored, while an earlier start() was awaiting
\* its first cycle
StartIdempotentWitness ==
    /\ lastEvent = Event("start", "already running")
    /\ isRunning
    /\ intervalId = 0
    /\ \E p \in Procs : procs[p].kind = "start"

\* the callback of the timer ended in one of its catch blocks
TickFailures == {"unreachable", "failed", "cleanup failed"}

\* C11  A failed tick is caught: when a timer callback ends because the
\* node did not answer, because the last write of the backup failed or
\* because cleanup threw, the monitor is as running as before and the same
\* timer is still armed, so the event loop will call the callback again.
TickFailureCaught ==
    [][\A p \in Procs :
          (/\ procs[p].kind = "tick"
           /\ procs'[p] = IdleProc
           /\ lastEvent'.result \in TickFailures)
          => /\ isRunning' = isRunning
             /\ intervalId' = intervalId
             /\ timers' = timers
             /\ intervalId' \in timers']_vars

\* a tick backed up a block, its cleanup threw, and the timer is armed
TickFailureCaughtWitness ==
    /\ lastEvent = Event("tick", "cleanup failed")
    /\ prevCycleBlock >= 1
    /\ isRunning
    /\ intervalId \in timers

\* C12  Node unreachable at the start of a backup: a backupTransactions
\* call whose getBlockNumber throws ends as failed, with the segments and
\* the cursor file as they were, so that a call without fromBlock starts
\* at the same block as before.
UnreachableAtStart ==
    [][\A p \in Procs :
          (procs[p].pc = "bt_height" /\ procs'[p] = IdleProc)
          => /\ lastEvent' = Event(procs[p].kind, "unreachable")
             /\ backupDir' = backupDir
             /\ metadata' = metadata
             /\ getLastBackupBlock(metadata') = getLastBackupBlock(metadata)]_vars

\* a call failed at its getBlockNumber after an earlier call had written
\* a segment and the cursor
UnreachableAtStartWitness ==
    /\ lastEvent = Event("direct", "unreachable")
    /\ metadata.exists
    /\ metadata.data.lastBackupBlock >= 1
    /\ DOMAIN backupDir # {}

\* the cursor as the contract sees it: lastBackupBlock and the segment count
Cursor(md) ==
    IF md.exists
    THEN <<md.data.lastBackupBlock, md.data.totalBackups>>
    ELSE <<>>

\* C13  Empty range: a backupTransactions call whose resolved fromBlock is
\* above its toBlock fetches no block, writes no segment and leaves the
\* persisted cursor (lastBackupBlock, totalBackups) as it was.
EmptyRangeNoOp ==
    [][\A p \in Procs :
          (/\ procs[p].pc = "bt_loop"
           /\ procs[p].fromBlock > procs[p].toBlock
           /\ Steps(p))
          => /\ procs[p].fetched = 0
             /\ backupDir' = backupDir
             /\ Cursor(metadata') = Cursor(metadata)]_vars

\* what an optional bound resolves to when only a bound that was not passed
\* is replaced
Resolved(arg, default) == IF arg = Undefined THEN default ELSE arg

\* C14  Range resolution: the loop runs over fromBlock..toBlock one height
\* at a time, upwards, where a fromBlock that was not passed is the
\* cursor's lastBackupBlock + 1 (0 without a cursor), a toBlock that was
\* not passed is the height just read, and a bound that was passed, 0
\* included, is taken as it is.
RangeResolution ==
    [][\A p \in Procs :
          /\ (procs[p].pc = "bt_height" /\ procs'[p].pc = "bt_loop")
              => /\ procs'[p].fromBlock =
                       Resolved(procs[p].fromArg,
                                IF metadata.exists
                                THEN metadata.data.lastBackupBlock + 1 ELSE 0)
                 /\ procs'[p].toBlock = Resolved(procs[p].toArg, height)
                 /\ procs'[p].blockNum = procs'[p].fromBlock
          /\ (procs[p].pc = "bt_loop" /\ procs'[p].pc = "bt_loop" /\ Steps(p))
              => /\ procs[p].blockNum \in procs[p].fromBlock..procs[p].toBlock
                 /\ procs'[p].blockNum = procs[p].blockNum + 1]_vars

\* C15  Cursor after a completed range: when backupTransactions returns
\* from a range with fromBlock <= toBlock, the cursor file holds
\* lastBackupBlock = toBlock, also when blocks of the range were skipped,
\* and a later call without fromBlock starts above every height of the range.
CursorAfterRange ==
    [][\A p \in Procs :
          (/\ procs[p].pc = "bt_loop"
           /\ procs[p].fromBlock <= procs[p].toBlock
           /\ procs'[p] = IdleProc
           /\ lastEvent'.result \in {"completed", "completed, blocks skipped"})
          => /\ metadata'.exists
             /\ metadata'.data.lastBackupBlock = procs[p].toBlock
             /\ getLastBackupBlock(metadata') > procs[p].toBlock]_vars

\* a call went through a range in which a block was skipped, wrote no
\* segment, and left the cursor at the end of the range
CursorAfterRangeWitness ==
    /\ lastEvent = Event("direct", "completed, blocks skipped")
    /\ metadata.exists
    /\ metadata.data.lastBackupBlock = 2
    /\ height = 2
    /\ DOMAIN backupDir = {}

\* a timer callback whose performBackup found no new block ends at this step
IdleTickEnds(p) ==
    /\ procs[p].kind = "tick"
    /\ procs[p].pc = "pb_height"
    /\ procs'[p] = IdleProc

\* the sets of k newest segments of dir (all of them when there are fewer)
NewestSegments(dir, k) ==
    {K \in SUBSET DOMAIN dir :
        /\ Cardinality(K) = Min({k, Cardinality(DOMAIN dir)})
        /\ \A f \in K, g \in DOMAIN dir \ K : f[2] >= g[2]}

\* C16  Retention policy: a cleanup that runs to its end, with auto-cleanup
\* on and more than maxBackupFiles segments, leaves exactly the
\* maxBackupFiles newest segments; with auto-cleanup off, or with no more
\* segments than the limit, it leaves every segment in place.
RetentionPolicy ==
    [][\A p \in Procs :
          (IdleTickEnds(p) /\ lastEvent' = Event("tick", "skipped"))
          => IF /\ config.enableAutoCleanup
                /\ Cardinality(DOMAIN backupDir) > config.maxBackupFiles
             THEN /\ DOMAIN backupDir' \in NewestSegments(backupDir, config.maxBackupFiles)
                  /\ \A f \in DOMAIN backupDir' : backupDir'[f] = backupDir[f]
             ELSE backupDir' = backupDir]_vars

\* C17  Retention safety: no cleanup removes the cursor file, and no
\* cleanup removes one of the maxBackupFiles newest segments.
RetentionSafety ==
    [][\A p \in Procs :
          /\ (procs[p].kind = "tick" /\ procs'[p] = IdleProc /\ metadata.exists)
              => metadata'.exists
          /\ IdleTickEnds(p)
              => \E K \in NewestSegments(backupDir, config.maxBackupFiles) :
                    K \subseteq DOMAIN backupDir']_vars

\* a required field of the scope was not given
ScopeAbsent(cfg) ==
    CASE cfg.recoveryMode = "incremental" ->
            cfg.startBlock = Undefined \/ cfg.endBlock = Undefined
      [] cfg.recoveryMode = "selective" ->
            ~cfg.targetAddresses.defined \/ Len(cfg.targetAddresses.list) = 0
      [] OTHER -> FALSE

\* C18  Scope check: performRecovery fails at once, with every store as it
\* was, exactly when an incremental run lacks startBlock or endBlock or a
\* selective run lacks a non-empty address list; a run whose fields are
\* all given, a startBlock or endBlock of 0 included, goes on to restore.
ScopeCheck ==
    [][recoveryRuns' = recoveryRuns + 1 =>
          IF ScopeAbsent(recoveryConfig)
          THEN /\ recoveryPhase' = <<"Failed">>
               /\ recoveryStats'.errors # recoveryStats.errors
               /\ UNCHANGED <<database, backupDir, metadata, procs>>
          ELSE recoveryPhase'[1] = "Restoring"]_vars

\* C19  Validity flag: when a recovery run is done, the validation report
\* on disk says isValid exactly when the run added nothing to the error
\* list, the validation step included.
ValidityFlag ==
    RecoveryEnded(recoveryConfig.recoveryMode, {"Done"}) =>
        ((validationReport.exists /\ validationReport.data.isValid)
            <=> recoveryStats.errors = errorsAtStart)

\* C20  Fingerprint determinism: a reconstruction that finds the summary
\* statistics of the earlier report writes the earlier stateHash again,
\* whenever it runs.
FingerprintDeterministic ==
    [][(/\ stateReport.exists
        /\ stateReport'.exists
        /\ stateReport'.data.totalTransactions = stateReport.data.totalTransactions
        /\ stateReport'.data.totalBlocks = stateReport.data.totalBlocks
        /\ stateReport'.data.uniqueAddresses = stateReport.data.uniqueAddresses)
       => stateReport'.data.stateHash = stateReport.data.stateHash]_vars

ReadOrders(S) ==
    {o \in [1..Cardinality(S) -> S] : \A i, j \in 1..Cardinality(S) : o[i] = o[j] => i = j}

Ascending(txs) ==
    \A i, j \in 1..Len(txs) :
        i < j => \/ txs[i].blockNumber < txs[j].blockNumber
                 \/ /\ txs[i].blockNumber = txs[j].blockNumber
                    /\ Rank(txs[i].transactionHash) <= Rank(txs[j].transactionHash)

\* C21  Deterministic consolidation ordering: the archive a restore wrote
\* is sorted by block number and, within a block, by transaction hash, and
\* it is the archive that reading the same segments in any other order
\* would have produced.
ConsolidationOrder ==
    restored.exists =>
        /\ Ascending(restored.transactions)
        /\ \A order \in ReadOrders(Range(restored.files)) :
              consolidate(backupDir, order) = restored.transactions

\* all three segments were read, the one of block 10 first, and the two
\* transactions of block 2 came from different segments
ConsolidationOrderWitness ==
    /\ restored.exists
    /\ restored.files = <<FileName(10, 1), FileName(2, 0), FileName(2, 1)>>
    /\ Len(restored.transactions) = 5
    /\ restored.transactions[2].transactionHash = "0xc2"
    /\ restored.transactions[5].blockNumber = 10

Bounds(a, b) == [from |-> a, to |-> b]

Queries ==
    [from       : {None, Some("0xAA"), Some("0xbb")},
     to         : {None, Some("0xAA"), Some("")},
     blockRange : {None, Some(Bounds(1, 1)), Some(Bounds(2, 1))},
     valueRange : {None, Some(Bounds("5", "6")), Some(Bounds("0", "1000000000"))},
     status     : {None, Some(0), Some(1)}]

\* the predicates of a filter, as the contract of search states them
Satisfies(tx, query) ==
    /\ query.from.defined => toLowerCase(tx.from) = toLowerCase(query.from.value)
    /\ query.to.defined => toLowerCase(tx.to) = toLowerCase(query.to.value)
    /\ query.blockRange.defined =>
          /\ query.blockRange.value.from <= tx.blockNumber
          /\ tx.blockNumber <= query.blockRange.value.to
    /\ query.valueRange.defined =>
          /\ BigInt(query.valueRange.value.from) <= BigInt(tx.value)
          /\ BigInt(tx.value) <= BigInt(query.valueRange.value.to)
    /\ query.status.defined => tx.status = query.status.value

\* C22  search returns exactly the stored records that satisfy every
\* predicate the filter provides, in the order they are stored: addresses
\* compared without case, block and value bounds inclusive, status equal
\* (0 included); a predicate that is left out constrains nothing.
SearchExact ==
    \A query \in Queries :
        searchTransactions(database, query)
            = SelectSeq(Primary(database), LAMBDA tx : Satisfies(tx, query))

Addresses == {"0xaa", "0xAA", "0xbb", ""}

\* C23  On a store that holds no transactions, whether its files were never
\* written or were written by empty ingests only, every query returns an
\* empty result, and an export ends with the no-data error and leaves the
\* export file as it was.
EmptyStore ==
    [][Primary(database) = <<>> =>
          /\ \A hash \in Range(Collation) : getTransactionByHash(database, hash) = None
          /\ \A blockNumber \in 0..MaxHeight :
                getTransactionsByBlock(database, blockNumber) = <<>>
          /\ \A address \in Addresses :
                getTransactionsByAddress(database, address) = <<>>
          /\ \A query \in Queries : searchTransactions(database, query) = <<>>
          /\ exported' # exported =>
                /\ exported'.csv = exported.csv
                /\ exported'.result = NoData]_vars

\* C24  Whenever a cycle of the monitor learns the height h while a cursor
\* is persisted, with c its lastBackupBlock, the cycle returns without a
\* backup if h <= c and otherwise calls the engine for the range [c+1, h]
\* (a cycle whose height request fails is not constrained).
CursorDrivenRange ==
    [][\A p \in Procs :
          (/\ procs[p].pc = "pb_height"
           /\ procs'[p] # procs[p]
           /\ metadata.exists
           /\ ~(procs'[p] = IdleProc /\ lastEvent'.result = "unreachable"))
          => LET c == metadata.data.lastBackupBlock
             IN  IF height <= c
                 THEN procs'[p] = IdleProc
                 ELSE /\ procs'[p].pc = "bt_height"
                      /\ procs'[p].fromArg = c + 1
                      /\ procs'[p].toArg = height]_vars

\* a cycle of the monitor that has fetched a block and has not yet written
\* its cursor
MidBackup(q) ==
    /\ procs[q].kind \in {"start", "tick", "force"}
    /\ procs[q].pc = "bt_loop"
    /\ procs[q].fetched >= 1

\* C25  Cleanup never runs beside a backup: when a timer callback goes on
\* from its performBackup to cleanupOldBackups with auto-cleanup on, no
\* other cycle of the monitor is between its first block fetch and its
\* cursor write.
CleanupBetweenCycles ==
    [][\A p \in Procs :
          (/\ procs[p].kind = "tick"
           /\ procs'[p] = IdleProc
           /\ lastEvent'.result \notin {"unreachable", "failed"}
           /\ config.enableAutoCleanup)
          => \A q \in Procs \ {p} : ~MidBackup(q)]_vars

\* C26  stop() does not abort a cycle: a call of stop() leaves every call
\* in flight, the segments and the cursor as they are, and a cycle of
\* start() or forceBackup() that completes after stop() returned has gone
\* through its whole range, has flushed what it held and has written the
\* cursor at the end of its range.
StopLeavesCycle ==
    [][/\ stop => (procs' = procs /\ backupDir' = backupDir /\ metadata' = metadata)
       /\ \A p \in Procs :
             (/\ stopReturned
              /\ procs[p].kind \in {"start", "force"}
              /\ procs[p].pc = "bt_loop"
              /\ procs'[p] = IdleProc
              /\ lastEvent'.result \in {"completed", "completed, blocks skipped"})
             => /\ procs[p].blockNum > procs[p].toBlock
                /\ metadata'.exists
                /\ metadata'.data.lastBackupBlock = procs[p].toBlock
                /\ procs[p].transactions # <<>> =>
                      /\ FileName(procs[p].toBlock, now') \in DOMAIN backupDir'
                      /\ backupDir'[FileName(procs[p].toBlock, now')].transactions
                            = procs[p].transactions]_vars

\* the first cycle of a start() completed after stop() had returned, and
\* left a segment and the cursor
StopLeavesCycleWitness ==
    /\ stopReturned
    /\ ~isRunning
    /\ lastEvent = Event("start", "completed")
    /\ metadata.exists
    /\ DOMAIN backupDir # {}

\* C27  updateConfig replaces exactly the fields it is given.  Called on a
\* stopped monitor it leaves the monitor stopped, with no timer and no
\* cycle; called on a running monitor it ends, when the start() it awaits
\* settles, with the monitor running and exactly one timer armed, at the
\* backupInterval of the new configuration.
Reconfigure ==
    [][/\ \A newConfig \in Partials :
             updateConfig(newConfig) =>
                /\ \A k \in DOMAIN config :
                      config'[k] = IF k \in DOMAIN newConfig THEN newConfig[k]
                                   ELSE config[k]
                /\ ~isRunning => (~isRunning' /\ timers' = {} /\ procs' = procs)
       /\ \A p \in Procs :
             (procs[p].kind = "reconfigure" /\ procs'[p] = IdleProc)
             => /\ isRunning'
                /\ Cardinality(timers') = 1
                /\ \A t \in timers' : armedAt'[t] = config'.backupInterval]_vars

Last(s) == s[Len(s)]

\* the stage sequences of a run that has begun
Stages(cfg) ==
    IF MissingScope(cfg) THEN {<<"Failed">>}
    ELSE {<<"Restoring">>,
          <<"Restoring", "Failed">>,
          <<"Restoring">>
             \o (IF cfg.enableStateReconstruction THEN <<"Reconstructing">> ELSE <<>>)
             \o <<"Validating", "Done">>}

\* C28  Stage order: a recovery run goes through Restoring, Reconstructing
\* (exactly when state reconstruction is enabled), Validating and Done, in
\* this order (a run without its required scope fails before Restoring).
\* When restoration throws, the run ends Failed with a longer error list,
\* and no reconstruction report, validation report or warning is written.
StageOrder ==
    [][(recoveryPhase' # recoveryPhase \/ recoveryRuns' # recoveryRuns) =>
          /\ recoveryPhase' \in Stages(recoveryConfig)
          /\ (lastEvent'.kind = "recovery"
                /\ lastEvent'.result \in {"unreachable", "failed"}
                /\ recoveryPhase = <<"Restoring">>)
             => Last(recoveryPhase') = "Failed"
          /\ Last(recoveryPhase') = "Failed" =>
                /\ Len(recoveryStats'.errors) > Len(recoveryStats.errors)
                /\ recoveryStats'.warnings = recoveryStats.warnings
                /\ validationReport' = validationReport
                /\ stateReport' = stateReport
          /\ (Last(recoveryPhase') = "Done"
                /\ ~recoveryConfig.enableStateReconstruction)
             => stateReport' = stateReport]_vars

\* a first run went through validation to Done; the second run's
\* restoration threw and the run ended Failed
StageOrderWitness ==
    /\ recoveryRuns = 2
    /\ validationReport.exists
    /\ recoveryPhase = <<"Restoring", "Failed">>
    /\ lastEvent = Event("recovery", "unreachable")

\* C29  Warnings do not invalidate a run: when a run that recorded a
\* warning (nothing recovered, or the reconstruction step failed) reaches
\* Done, validation has run after the warning, the error list has grown by
\* nothing except a failure of validation itself, and the validation
\* report, when it could be written, lists the warnings and says isValid
\* exactly if the error list was empty: true for a run without errors.
WarningsHarmless ==
    [][(/\ recoveryPhase' # recoveryPhase
        /\ Last(recoveryPhase') = "Done"
        /\ recoveryStats'.warnings # recoveryStats.warnings) =>
          /\ recoveryPhase'[Len(recoveryPhase') - 1] = "Validating"
          /\ recoveryStats'.errors \in
                {recoveryStats.errors, Append(recoveryStats.errors, "Validation failed")}
          /\ recoveryStats'.errors = recoveryStats.errors =>
                /\ validationReport'.exists
                /\ validationReport'.data.warnings = recoveryStats'.warnings
                /\ validationReport'.data.isValid = (recoveryStats.errors = <<>>)]_vars

\* a run reached Done with the warnings of a failed reconstruction and of
\* an empty database, with no error, and its report says isValid
WarningsHarmlessWitness ==
    /\ recoveryPhase = <<"Restoring", "Reconstructing", "Validating", "Done">>
    /\ Includes(recoveryStats.warnings, ReconstructionWarning("full"))
    /\ Includes(recoveryStats.warnings, "No transactions recovered")
    /\ Includes(recoveryStats.warnings, "No blocks recovered")
    /\ recoveryStats.errors = <<>>
    /\ validationReport.exists
    /\ validationReport.data.isValid
    /\ validationReport.data.warnings = recoveryStats.warnings

\* C30  Recovery only reads the segment store: no step of a recovery run
\* adds, removes or rewrites a segment, none writes the cursor, and none
\* gets an answer from the chain node (neither the height nor a block).
RecoveryReadsOnly ==
    [][/\ backupDir' = backupDir
       /\ metadata' = metadata
       /\ \A p \in Procs :
             procs[p].kind = "recovery" =>
                /\ ~(procs[p].pc = "bt_height" /\ procs'[p].pc = "bt_loop")
                /\ procs'[p].fetched <= procs[p].fetched]_vars

\* the segments among names that hold record r
Holding(dir, names, r) ==
    {f \in names \cap DOMAIN dir : Includes(dir[f].transactions, r)}

AscendingBlocks(txs) ==
    \A i, j \in 1..Len(txs) : i < j => txs[i].blockNumber <= txs[j].blockNumber

WellFormedSegment(g) ==
    /\ \A i \in 1..Len(g.transactions) : g.transactions[i].blockNumber <= g.lastBackupBlock
    /\ AscendingBlocks(g.transactions)

\* C31  Batching and durability: while a backup runs, every record it has
\* extracted is either still in its buffer or in exactly one segment the
\* run wrote, also after a flush that failed; and when the run writes the
\* cursor, every extracted record is in exactly one segment written by the
\* run, each of these segments is named by a block not below any record
\* in it, and holds its records in ascending block order.
DurableBeforeCursor ==
    [][\A p \in Procs :
          LET proc == procs[p]
          IN  /\ proc.pc = "bt_loop" =>
                    \A i \in 1..Len(proc.extracted) :
                       LET r == proc.extracted[i]
                       IN  IF Includes(proc.transactions, r)
                           THEN Holding(backupDir, proc.segments, r) = {}
                           ELSE Cardinality(Holding(backupDir, proc.segments, r)) = 1
              /\ (/\ proc.pc = "bt_loop"
                  /\ procs'[p] = IdleProc
                  /\ lastEvent'.result \in {"completed", "completed, blocks skipped"})
                 => LET written == proc.segments
                                     \cup (IF proc.transactions # <<>>
                                           THEN {FileName(proc.toBlock, now')} ELSE {})
                    IN  /\ metadata'.exists
                        /\ written \subseteq DOMAIN backupDir'
                        /\ \A i \in 1..Len(proc.extracted) :
                              Cardinality(Holding(backupDir', written,
                                                  proc.extracted[i])) = 1
                        /\ \A f \in written : WellFormedSegment(backupDir'[f])]_vars

\* a run is about to write its cursor after its intermediate flush failed:
\* it went through three blocks, wrote no segment, and its buffer holds the
\* two records it extracted
DurableBeforeCursorWitness ==
    \E p \in Procs :
        /\ procs[p].pc = "bt_loop"
        /\ procs[p].blockNum > procs[p].toBlock
        /\ procs[p].processedBlocks = 3
        /\ procs[p].written = 0
        /\ Len(procs[p].extracted) = 2
        /\ procs[p].transactions = procs[p].extracted

\* C32  Segment read order: the files a restore of all segments has read
\* were read in the order they were written, that is by ascending creation
\* time, whatever the number of digits of their block heights.
CreationOrder ==
    restored.exists =>
        \A i, j \in 1..Len(restored.files) :
            i < j => restored.files[i][2] <= restored.files[j][2]

\* a timer callback reaches its cleanupOldBackups in this step
CleanupRuns ==
    \E p \in Procs :
        /\ procs[p].kind = "tick"
        /\ procs'[p] = IdleProc
        /\ lastEvent'.result \notin {"unreachable", "failed"}
        /\ config.enableAutoCleanup

\* C33  Segment immutability: no step changes the contents of a segment
\* that has been written, and a segment disappears only in a step in which
\* retention cleanup runs.
SegmentsImmutable ==
    [][\A f \in DOMAIN backupDir :
          IF f \in DOMAIN backupDir'
          THEN backupDir'[f] = backupDir[f]
          ELSE CleanupRuns]_vars

\* C34  Address index case-normalization: a query by address returns the
\* stored records whose from or to is the address in any spelling of its
\* letters, so that two spellings of one address get the same answer.
AddressCaseNormalized ==
    \A address \in Addresses \ {""} :
        Range(getTransactionsByAddress(database, address))
            = {tx \in Range(Primary(database)) :
                  \/ toLowerCase(tx.from) = toLowerCase(address)
                  \/ toLowerCase(tx.to) = toLowerCase(address)}

\* C35  Single timer: at most one timer is armed at any time, and an armed
\* timer is the one whose handle the monitor holds, so that stop() can
\* clear it.
SingleTimer ==
    /\ Cardinality(timers) <= 1
    /\ \A t \in timers : t = intervalId

\* C36  Running means armed: whenever no start() (called directly or by
\* updateConfig) is awaiting its first cycle, the monitor's running flag is
\* set exactly if a timer is armed.
RunningIffArmed == Starting = {} => (isRunning <=> timers # {})

\* C37  Per-run report isolation: a recovery run begins with empty error
\* and warning lists, so that what its report holds comes from that run
\* alone, whatever an earlier run on the same manager recorded.
ReportIsolation ==
    [][recoveryRuns' = recoveryRuns + 1 =>
          /\ errorsAtStart' = <<>>
          /\ recoveryStats'.warnings = <<>>]_vars

\* C38  Segment count of the cursor: each time a backup run writes the
\* cursor, the totalBackups it records is the number of segments in the
\* backup directory at that moment, the cursor file itself not counted.
CursorCountsSegments ==
    [][(metadata' # metadata /\ metadata'.exists) =>
          metadata'.data.totalBackups = Cardinality(DOMAIN backupDir')]_vars

----------------------------------------------------------------------------
(* The running monitor under fairness: the timer keeps firing, every call  *)
(* of the node that is retried often enough answers, and a cycle that is   *)
(* retried often enough gets through its last write.  The cycles are not   *)
(* counted here, so the timer never runs out.                              *)

\* lines 64-69: the timer's callback enters performBackup
Callback(t) ==
    /\ t \in timers
    /\ Active # Procs
    /\ procs' = [procs EXCEPT ![FreeProc] =
                    [IdleProc EXCEPT !.kind = "tick", !.pc = "pb_height"]]
    /\ UNCHANGED <<dbVars, toolVars, now, chainVars, storeVars, monitorVars,
                   lastEvent, recVars>>

\* line 98: getBlockNumber of performBackup answers
HeightAnswers(p) ==
    /\ PB_Height(p)
    /\ procs'[p].pc = "bt_height" \/ lastEvent'.result # "unreachable"

\* line 50: getBlockNumber of backupTransactions answers
RangeResolved(p) == BT_Height(p) /\ procs'[p].pc = "bt_loop"

\* lines 118-127 return: the cycle completes
CycleCompletes(p) == BT_Finish(p) /\ lastEvent'.result # "failed"

InitProgress ==
    /\ InitTicks

NextProgress ==
    \/ Mine
    \/ \E t \in timers : Callback(t)
    \/ \E p \in Procs : PB_Height(p)
    \/ \E p \in Procs : BT_Height(p)
    \/ \E p \in Procs : BT_Block(p)
    \/ \E p \in Procs : BT_Finish(p)

FairProgress ==
    /\ WF_vars(\E t \in timers : Callback(t))
    /\ \A p \in Procs :
          /\ SF_vars(HeightAnswers(p))
          /\ SF_vars(RangeResolved(p))
          /\ WF_vars(BT_Block(p))
          /\ SF_vars(CycleCompletes(p))

SpecProgress == InitProgress /\ [][NextProgress]_vars /\ FairProgress

\* C39  Backup progress: on a monitor that stays running, with a timer that
\* keeps firing, a node that eventually answers and cycles that complete,
\* for every height h the chain reaches the cursor file eventually holds a
\* lastBackupBlock of h or more.
BackupProgress ==
    \A h \in 0..MaxHeight :
        (height >= h) ~> (metadata.exists /\ metadata.data.lastBackupBlock >= h)

====
